---- MODULE Spec2Model ----
(***************************************************************************)
(* A model of src/src/controller/custom_controller.py: the custom actions  *)
(* CustomController registers on the browser_use registry, the ActionResult *)
(* each of them returns, and the bounded retry wrapper.                     *)
(*                                                                          *)
(* Text is modelled as a sequence of tokens (a quote, a bracket, a run of   *)
(* letters), so that str(), json.dumps() and json.loads() are computed and  *)
(* can disagree.  The browser driver is the environment: the outcome of     *)
(* each driver call an action makes is an input of the action.              *)
(***************************************************************************)
EXTENDS Integers, Sequences, FiniteSets, TLC

VARIABLES
    clipboard,      \* the system clipboard (pyperclip)
    cookies,        \* the browser context's cookie jar, a list of dicts
    fields,         \* the page's form inputs that hold a value: {<<selector, value>>}
    listeners,      \* the page's "request" callbacks, each the list its closure appends to
    last,           \* the invocation the host made last, and how it ended
    pc,             \* retry_failed_action: "idle", "loop" or "done"
    action_name,    \* retry_failed_action: its action_name argument
    max_retries,    \* retry_failed_action: its max_retries argument
    attempt,        \* retry_failed_action: the loop variable _ of range(max_retries)
    trace           \* retry_failed_action: the outcome of each execute_action so far

vars == <<clipboard, cookies, fields, listeners, last, pc, action_name, max_retries,
          attempt, trace>>

session_vars == <<clipboard, cookies, fields, listeners>>

retry_vars == <<pc, action_name, max_retries, attempt, trace>>

-----------------------------------------------------------------------------
(* Bounds of the model. *)

MaxCookies == 2

MaxFields == 2

MaxListeners == 2

MaxRequests == 2

MaxRetries == 3

-----------------------------------------------------------------------------
(* Python values. *)

None == [tag |-> "None"]

\* A str, as its tokens.  The empty str is Str(<<>>).
Str(toks) == [tag |-> "str", toks |-> toks]

\* The values json.loads yields and json.dumps / str() take.
JStr(s) == [t |-> "str", v |-> s]

JArr(items) == [t |-> "list", v |-> items]

\* A dict, as its items in insertion order.
JObj(items) == [t |-> "dict", v |-> items]

RECURSIVE Join(_, _)
Join(seqs, sep) ==
    IF seqs = <<>> THEN <<>>
    ELSE IF Len(seqs) = 1 THEN seqs[1]
    ELSE seqs[1] \o sep \o Join(Tail(seqs), sep)

Contains(toks, tok) == \E i \in 1..Len(toks) : toks[i] = tok

\* str(n) of an int
IntStr(n) == ToString(n)

\* repr() of a str: single quotes, unless the text holds a single quote and no
\* double quote (the model's texts hold no double quote and no backslash).
StrRepr(s) ==
    IF Contains(s, "'") THEN <<"\"">> \o s \o <<"\"">> ELSE <<"'">> \o s \o <<"'">>

\* str() of a list of dicts of str, as Python prints it.
RECURSIVE PyStr(_)
PyStr(x) ==
    IF x.t = "str" THEN StrRepr(x.v)
    ELSE IF x.t = "list"
        THEN <<"[">> \o Join([i \in 1..Len(x.v) |-> PyStr(x.v[i])], <<",", " ">>) \o <<"]">>
    ELSE <<"{">>
         \o Join([i \in 1..Len(x.v) |->
                    StrRepr(x.v[i][1]) \o <<":", " ">> \o PyStr(x.v[i][2])],
                 <<",", " ">>)
         \o <<"}">>

\* json.dumps with its default separators.
JsonStr(s) == <<"\"">> \o s \o <<"\"">>

RECURSIVE JsonDumps(_)
JsonDumps(x) ==
    IF x.t = "str" THEN JsonStr(x.v)
    ELSE IF x.t = "list"
        THEN <<"[">> \o Join([i \in 1..Len(x.v) |-> JsonDumps(x.v[i])], <<",", " ">>) \o <<"]">>
    ELSE <<"{">>
         \o Join([i \in 1..Len(x.v) |->
                    JsonStr(x.v[i][1]) \o <<":", " ">> \o JsonDumps(x.v[i][2])],
                 <<",", " ">>)
         \o <<"}">>

-----------------------------------------------------------------------------
(* json.loads: a recursive-descent parser over the tokens.  A parse step    *)
(* yields [ok, v, rest].                                                    *)

ParseFail == [ok |-> FALSE, v |-> None, rest |-> <<>>]

Parsed(v, rest) == [ok |-> TRUE, v |-> v, rest |-> rest]

RECURSIVE SkipWs(_)
SkipWs(toks) == IF toks # <<>> /\ Head(toks) = " " THEN SkipWs(Tail(toks)) ELSE toks

\* the text of a string literal whose opening quote has been read
RECURSIVE ParseChars(_, _)
ParseChars(toks, acc) ==
    IF toks = <<>> THEN ParseFail
    ELSE IF Head(toks) = "\"" THEN Parsed(acc, Tail(toks))
    ELSE ParseChars(Tail(toks), Append(acc, Head(toks)))

RECURSIVE ParseValue(_)
RECURSIVE ParseItems(_, _)
RECURSIVE ParseMembers(_, _)

\* a dict keeps a repeated key at its first position, with the last value
PutItem(items, k, v) ==
    IF \E i \in 1..Len(items) : items[i][1] = k
    THEN [i \in 1..Len(items) |-> IF items[i][1] = k THEN <<k, v>> ELSE items[i]]
    ELSE Append(items, <<k, v>>)

ParseValue(toks0) ==
    LET toks == SkipWs(toks0) IN
    IF toks = <<>> THEN ParseFail
    ELSE IF Head(toks) = "\""
        THEN LET s == ParseChars(Tail(toks), <<>>) IN
             IF s.ok THEN Parsed(JStr(s.v), s.rest) ELSE ParseFail
    ELSE IF Head(toks) = "["
        THEN LET r == SkipWs(Tail(toks)) IN
             IF r # <<>> /\ Head(r) = "]" THEN Parsed(JArr(<<>>), Tail(r))
             ELSE ParseItems(r, <<>>)
    ELSE IF Head(toks) = "{"
        THEN LET r == SkipWs(Tail(toks)) IN
             IF r # <<>> /\ Head(r) = "}" THEN Parsed(JObj(<<>>), Tail(r))
             ELSE ParseMembers(r, <<>>)
    ELSE ParseFail

\* the items of a list, after "[" or ","
ParseItems(toks, acc) ==
    LET e == ParseValue(toks) IN
    IF ~e.ok THEN ParseFail
    ELSE LET r == SkipWs(e.rest) IN
         IF r = <<>> THEN ParseFail
         ELSE IF Head(r) = "]" THEN Parsed(JArr(Append(acc, e.v)), Tail(r))
         ELSE IF Head(r) = "," THEN ParseItems(Tail(r), Append(acc, e.v))
         ELSE ParseFail

\* the members of an object, after "{" or ","
ParseMembers(toks0, acc) ==
    LET toks == SkipWs(toks0) IN
    IF toks = <<>> \/ Head(toks) # "\"" THEN ParseFail
    ELSE LET k == ParseChars(Tail(toks), <<>>) IN
         IF ~k.ok THEN ParseFail
         ELSE LET c == SkipWs(k.rest) IN
              IF c = <<>> \/ Head(c) # ":" THEN ParseFail
              ELSE LET e == ParseValue(Tail(c)) IN
                   IF ~e.ok THEN ParseFail
                   ELSE LET r == SkipWs(e.rest) IN
                        IF r = <<>> THEN ParseFail
                        ELSE IF Head(r) = "}"
                            THEN Parsed(JObj(PutItem(acc, k.v, e.v)), Tail(r))
                        ELSE IF Head(r) = ","
                            THEN ParseMembers(Tail(r), PutItem(acc, k.v, e.v))
                        ELSE ParseFail

\* json.loads(text): [ok |-> TRUE, v |-> value], or ok = FALSE for JSONDecodeError
JsonLoads(toks) ==
    LET p == ParseValue(toks) IN
    IF p.ok /\ SkipWs(p.rest) = <<>> THEN p ELSE ParseFail

-----------------------------------------------------------------------------
(* ActionResult, and how a call ends. *)

\* browser_use.agent.views.ActionResult: both fields default to None
ActionResult(content, err) == [extracted_content |-> content, error |-> err]

\* ActionResult(extracted_content=...)
Success(toks) == ActionResult(Str(toks), None)

\* ActionResult(error=...)
Failure(toks) == ActionResult(None, Str(toks))

Exc(type, msg) == [type |-> type, msg |-> msg]

\* a call returns a value, or an exception leaves it
Return(r) == [kind |-> "return", result |-> r]

Raise(e) == [kind |-> "raise", exc |-> e]

\* The outcome of one call into the driver (or the clipboard, the extractor,
\* the HTTP client): the value it returns, or the exception it raises.
DOk(v) == [kind |-> "ok", v |-> v]

DErr(e) == [kind |-> "raise", exc |-> e]

\* What a driver call may raise; str(e) may be empty (asyncio.TimeoutError()).
DriverErrors == {Exc("Exception", <<>>), Exc("Exception", <<"Timeout 5000ms exceeded">>)}

\* The outcomes of the calls a handler makes, in order: vals[i] is what the
\* i-th call may return; nothing is called after the call that raises.
RECURSIVE Scripts(_)
Scripts(vals) ==
    IF vals = <<>> THEN {<<>>}
    ELSE {<<DErr(e)>> : e \in DriverErrors}
         \cup UNION {{<<DOk(v)>> \o r : r \in Scripts(Tail(vals))} : v \in Head(vals)}

\* a handler's outcome together with the session it leaves
Ret(s, r) == [out |-> Return(r), s |-> s]

Esc(s, e) == [out |-> Raise(e), s |-> s]

\* str(x): a str is itself, anything else prints as its repr
PyToStr(x) == IF x.t = "str" THEN x.v ELSE PyStr(x)

\* base64.b64encode(...).decode("utf-8"), per group of three bytes
B64Group(g) == IF g = "PNG" THEN "UE5H" ELSE "AAAA"

B64Encode(bytes) == [i \in 1..Len(bytes) |-> B64Group(bytes[i])]

\* page.fill(selector, value) on the page's inputs
Fill(fs, selector, value) == {f \in fs : f[1] # selector} \cup {<<selector, value>>}

\* d.get(k) of a dict's items
DictGet(items, k) ==
    IF \E i \in 1..Len(items) : items[i][1] = k
    THEN (CHOOSE p \in {items[i] : i \in 1..Len(items)} : p[1] = k)[2]
    ELSE None

\* what context.add_cookies takes: a list of dicts
IsCookieList(x) == x.t = "list" /\ \A i \in 1..Len(x.v) : x.v[i].t = "dict"

\* context.add_cookies: a cookie replaces the cookie of its name
RECURSIVE AddCookies(_, _)
AddCookies(jar, new) ==
    IF new = <<>> THEN jar
    ELSE LET c == Head(new)
             same(x) == DictGet(x.v, <<"name">>) = DictGet(c.v, <<"name">>)
             kept == SelectSeq(jar, LAMBDA x : ~same(x))
         IN AddCookies(Append(kept, c), Tail(new))

-----------------------------------------------------------------------------
(* The handlers.  s is the session, a the arguments, d the outcomes of the  *)
(* calls the handler makes.                                                 *)

copy_to_clipboard(s, a, d) ==
    IF d[1].kind = "raise" THEN Esc(s, d[1].exc)
    ELSE Ret([s EXCEPT !.clipboard = a.text], Success(a.text))

paste_from_clipboard(s, a, d) ==
    IF d[1].kind = "raise" THEN Esc(s, d[1].exc)
    ELSE IF d[2].kind = "raise" THEN Esc(s, d[2].exc)
    ELSE IF d[3].kind = "raise" THEN Esc(s, d[3].exc)
    ELSE Ret(s, Success(d[1].v))

take_screenshot(s, a, d) ==
    IF d[1].kind = "raise" THEN Esc(s, d[1].exc)
    ELSE IF d[2].kind = "raise" THEN Esc(s, d[2].exc)
    ELSE Ret(s, Success(<<"data:image/png;base64,">> \o B64Encode(d[2].v)))

extract_main_content(s, a, d) ==
    IF d[1].kind = "raise" THEN Esc(s, d[1].exc)
    ELSE IF d[2].kind = "raise" THEN Esc(s, d[2].exc)
    ELSE IF d[3].kind = "raise" THEN Esc(s, d[3].exc)
    ELSE Ret(s, Success(d[3].v))

wait_for_element(s, a, d) ==
    IF d[1].kind = "raise" THEN Esc(s, d[1].exc)
    ELSE IF d[2].kind = "raise" THEN Ret(s, Failure(d[2].exc.msg))
    ELSE Ret(s, Success(<<"Element '">> \o a.selector \o <<"' found">>))

\* What page.evaluate may return: a str, a list.  A script names the result by
\* its index.
EvaluateResults == <<JStr(<<"title">>), JArr(<<JStr(<<"x">>)>>)>>

execute_js(s, a, d) ==
    IF d[1].kind = "raise" THEN Esc(s, d[1].exc)
    ELSE IF d[2].kind = "raise" THEN Esc(s, d[2].exc)
    ELSE Ret(s, Success(PyToStr(EvaluateResults[d[2].v])))

scroll_to_element(s, a, d) ==
    IF d[1].kind = "raise" THEN Esc(s, d[1].exc)
    ELSE IF d[2].kind = "raise" THEN Ret(s, Failure(d[2].exc.msg))
    ELSE Ret(s, Success(<<"Scrolled to element '">> \o a.selector \o <<"'">>))

close_tab(s, a, d) ==
    IF d[1].kind = "raise" THEN Esc(s, d[1].exc)
    ELSE IF d[2].kind = "raise" THEN Esc(s, d[2].exc)
    ELSE Ret(s, Success(<<"Tab closed">>))

log_page_url(s, a, d) ==
    IF d[1].kind = "raise" THEN Esc(s, d[1].exc)
    ELSE Ret(s, Success(<<"Logged URL: ">> \o d[1].v))

open_new_tab(s, a, d) ==
    IF d[1].kind = "raise" THEN Esc(s, d[1].exc)
    ELSE IF d[2].kind = "raise" THEN Esc(s, d[2].exc)
    ELSE Ret(s, Success(<<"Opened new tab with URL: ">> \o a.url))

click_element(s, a, d) ==
    IF d[1].kind = "raise" THEN Esc(s, d[1].exc)
    ELSE LET t == [s EXCEPT !.calls = Append(@, <<"click", a.selector>>)] IN
         IF d[2].kind = "raise" THEN Ret(t, Failure(d[2].exc.msg))
         ELSE Ret(t, Success(<<"Clicked element with selector: ">> \o a.selector))

input_text(s, a, d) ==
    IF d[1].kind = "raise" THEN Esc(s, d[1].exc)
    ELSE LET t == [s EXCEPT !.calls = Append(@, <<"fill", a.selector>>)] IN
         IF d[2].kind = "raise" THEN Ret(t, Failure(d[2].exc.msg))
         ELSE Ret([t EXCEPT !.fields = Fill(s.fields, a.selector, a.text)],
                  Success(<<"Input text into element ">> \o a.selector))

refresh_page(s, a, d) ==
    IF d[1].kind = "raise" THEN Esc(s, d[1].exc)
    ELSE IF d[2].kind = "raise" THEN Ret(s, Failure(d[2].exc.msg))
    ELSE Ret(s, Success(<<"Page refreshed">>))

hover_over_element(s, a, d) ==
    IF d[1].kind = "raise" THEN Esc(s, d[1].exc)
    ELSE IF d[2].kind = "raise" THEN Ret(s, Failure(d[2].exc.msg))
    ELSE Ret(s, Success(<<"Hovered over element: ">> \o a.selector))

get_cookies(s, a, d) ==
    IF d[1].kind = "raise" THEN Esc(s, d[1].exc)
    ELSE IF d[2].kind = "raise" THEN Ret(s, Failure(d[2].exc.msg))
    ELSE Ret(s, Success(PyToStr(d[2].v)))

set_cookies(s, a, d) ==
    IF d[1].kind = "raise" THEN Esc(s, d[1].exc)
    ELSE LET cookies_list == JsonLoads(a.cookies) IN
         IF ~cookies_list.ok THEN Ret(s, Failure(<<"Expecting value">>))
         ELSE IF d[2].kind = "raise" THEN Ret(s, Failure(d[2].exc.msg))
         ELSE Ret([s EXCEPT !.cookies = AddCookies(s.cookies, cookies_list.v.v)],
                  Success(<<"Cookies set">>))

download_file(s, a, d) ==
    IF d[1].kind = "raise" THEN Esc(s, d[1].exc)
    ELSE IF d[2].kind = "raise" THEN Ret(s, Failure(d[2].exc.msg))
    ELSE IF d[3].kind = "raise" THEN Ret(s, Failure(d[3].exc.msg))
    ELSE IF a.download_path # None /\ a.download_path.toks # <<>>
        THEN IF d[4].kind = "raise" THEN Ret(s, Failure(d[4].exc.msg))
             ELSE Ret(s, Success(<<"Downloaded file saved to ">> \o a.download_path.toks))
    ELSE Ret(s, Success(<<"File downloaded">>))

wait_for_navigation(s, a, d) ==
    IF d[1].kind = "raise" THEN Esc(s, d[1].exc)
    ELSE IF d[2].kind = "raise" THEN Ret(s, Failure(d[2].exc.msg))
    ELSE Ret(s, Success(<<"Navigation completed">>))

scroll_to_bottom(s, a, d) ==
    IF d[1].kind = "raise" THEN Esc(s, d[1].exc)
    ELSE IF d[2].kind = "raise" THEN Ret(s, Failure(d[2].exc.msg))
    ELSE Ret(s, Success(<<"Scrolled to the bottom of the page">>))

scroll_to_top(s, a, d) ==
    IF d[1].kind = "raise" THEN Esc(s, d[1].exc)
    ELSE IF d[2].kind = "raise" THEN Ret(s, Failure(d[2].exc.msg))
    ELSE Ret(s, Success(<<"Scrolled to the top of the page">>))

simulate_mouse_movement(s, a, d) ==
    IF d[1].kind = "raise" THEN Esc(s, d[1].exc)
    ELSE IF d[2].kind = "raise" THEN Ret(s, Failure(d[2].exc.msg))
    ELSE Ret(s, Success(<<"Mouse moved to coordinates (", IntStr(a.x), ", ", IntStr(a.y), ")">>))

extract_all_links(s, a, d) ==
    IF d[1].kind = "raise" THEN Esc(s, d[1].exc)
    ELSE IF d[2].kind = "raise" THEN Ret(s, Failure(d[2].exc.msg))
    ELSE Ret(s, Success(JsonDumps(d[2].v)))

extract_all_images(s, a, d) ==
    IF d[1].kind = "raise" THEN Esc(s, d[1].exc)
    ELSE IF d[2].kind = "raise" THEN Ret(s, Failure(d[2].exc.msg))
    ELSE Ret(s, Success(JsonDumps(d[2].v)))

extract_table_data(s, a, d) ==
    IF d[1].kind = "raise" THEN Esc(s, d[1].exc)
    ELSE IF d[2].kind = "raise" THEN Ret(s, Failure(d[2].exc.msg))
    ELSE Ret(s, Success(JsonDumps(d[2].v)))

\* f'{form_selector} [name="{field}"]'
FieldSelector(form_selector, field) == form_selector \o <<" [name=\"">> \o field \o <<"\"]">>

\* f'{form_selector} [type="submit"]'
SubmitSelector(form_selector) == form_selector \o <<" [type=\"submit\"]">>

\* The loop over data_dict.items(): item i is filled by call i + 1 of the
\* handler; the loop ends at the first fill that raises.  Yields the session
\* and whether a fill raised.
RECURSIVE FillLoop(_, _, _, _, _)
FillLoop(s, form_selector, items, d, i) ==
    IF i > Len(items) THEN [s |-> s, raised |-> FALSE]
    ELSE LET selector == FieldSelector(form_selector, items[i][1])
             t == [s EXCEPT !.calls = Append(@, <<"fill", selector>>)]
         IN IF d[i + 1].kind = "raise"
            THEN [s |-> t, raised |-> TRUE, exc |-> d[i + 1].exc]
            ELSE FillLoop([t EXCEPT !.fields = Fill(@, selector, items[i][2].v)],
                          form_selector, items, d, i + 1)

\* a handler that puts the inputs back as they were when a call raises
fill_and_submit_form_rollback(s, a, d) ==
    IF d[1].kind = "raise" THEN Esc(s, d[1].exc)
    ELSE LET data_dict == JsonLoads(a.data) IN
         IF ~data_dict.ok THEN Ret(s, Failure(<<"Expecting value">>))
         ELSE IF data_dict.v.t # "dict"
             THEN Ret(s, Failure(<<"'", data_dict.v.t, "' object has no attribute 'items'">>))
         ELSE LET items == data_dict.v.v
                  filled == FillLoop(s, a.form_selector, items, d, 1)
                  undone == [filled.s EXCEPT !.fields = s.fields]
              IN IF filled.raised THEN Ret(undone, Failure(filled.exc.msg))
                 ELSE LET t == [filled.s EXCEPT
                                    !.calls = Append(@, <<"click", SubmitSelector(a.form_selector)>>)]
                      IN IF d[Len(items) + 2].kind = "raise"
                         THEN Ret([t EXCEPT !.fields = s.fields],
                                  Failure(d[Len(items) + 2].exc.msg))
                         ELSE Ret(t, Success(<<"Form filled and submitted">>))

fill_and_submit_form(s, a, d) ==
    IF d[1].kind = "raise" THEN Esc(s, d[1].exc)
    ELSE LET data_dict == JsonLoads(a.data) IN
         IF ~data_dict.ok THEN Ret(s, Failure(<<"Expecting value">>))
         ELSE IF data_dict.v.t # "dict"
             THEN Ret(s, Failure(<<"'", data_dict.v.t, "' object has no attribute 'items'">>))
         ELSE LET items == data_dict.v.v
                  filled == FillLoop(s, a.form_selector, items, d, 1)
              IN IF filled.raised THEN Ret(filled.s, Failure(filled.exc.msg))
                 ELSE LET t == [filled.s EXCEPT
                                    !.calls = Append(@, <<"click", SubmitSelector(a.form_selector)>>)]
                      IN IF d[Len(items) + 2].kind = "raise"
                         THEN Ret(t, Failure(d[Len(items) + 2].exc.msg))
                         ELSE Ret(t, Success(<<"Form filled and submitted">>))

handle_popup(s, a, d) ==
    IF d[1].kind = "raise" THEN Esc(s, d[1].exc)
    ELSE IF a.action \in {<<"accept">>, <<"dismiss">>} /\ d[2].kind = "raise"
        THEN Ret(s, Failure(d[2].exc.msg))
    ELSE Ret(s, Success(<<"Popup handled: ">> \o a.action))

switch_to_iframe(s, a, d) ==
    IF d[1].kind = "raise" THEN Esc(s, d[1].exc)
    ELSE IF d[2].kind = "raise" THEN Ret(s, Failure(d[2].exc.msg))
    ELSE IF d[2].v = "ElementHandle"
        THEN IF d[3].kind = "raise" THEN Ret(s, Failure(d[3].exc.msg))
             ELSE Ret(s, Success(<<"Switched to iframe: ">> \o a.iframe_selector))
    ELSE Ret(s, Failure(<<"Iframe not found">>))

log_console_output(s, a, d) ==
    IF d[1].kind = "raise" THEN Esc(s, d[1].exc)
    ELSE IF d[2].kind = "raise" THEN Ret(s, Failure(d[2].exc.msg))
    ELSE Ret(s, Success(<<"Console logging enabled">>))

\* one list kept across invocations instead of a new one
SharedRequests(s) == IF s.listeners = <<>> THEN <<>> ELSE s.listeners[Len(s.listeners)]

\* requests = []: the list the callback of this invocation appends to
NewRequests(s) == <<>>

capture_network_requests(s, a, d) ==
    IF d[1].kind = "raise" THEN Esc(s, d[1].exc)
    ELSE LET requests == NewRequests(s) IN
         IF d[2].kind = "raise" THEN Ret(s, Failure(d[2].exc.msg))
         ELSE Ret([s EXCEPT !.listeners = Append(s.listeners, requests)],
                  Success(JsonDumps(JArr([i \in 1..Len(requests) |-> JStr(requests[i])]))))

clear_browser_cache(s, a, d) ==
    IF d[1].kind = "raise" THEN Esc(s, d[1].exc)
    ELSE IF d[2].kind = "raise" THEN Ret(s, Failure(d[2].exc.msg))
    ELSE Ret(s, Success(<<"Browser cache cleared">>))

take_full_page_screenshot(s, a, d) ==
    IF d[1].kind = "raise" THEN Esc(s, d[1].exc)
    ELSE IF d[2].kind = "raise" THEN Ret(s, Failure(d[2].exc.msg))
    ELSE Ret(s, Success(<<"data:image/png;base64,">> \o B64Encode(d[2].v)))

\* a handler that binds result = None before the branches
call_external_api_result_none(s, a, d) ==
    IF a.method = <<"GET">>
        THEN IF d[1].kind = "raise" THEN Ret(s, Failure(d[1].exc.msg))
             ELSE IF d[2].kind = "raise" THEN Ret(s, Failure(d[2].exc.msg))
             ELSE Ret(s, Success(d[2].v))
    ELSE IF a.method = <<"POST">>
        THEN IF a.data = None
                 THEN Ret(s, Failure(<<"the JSON object must be str, bytes or bytearray, not NoneType">>))
             ELSE IF ~JsonLoads(a.data.toks).ok THEN Ret(s, Failure(<<"Expecting value">>))
             ELSE IF d[1].kind = "raise" THEN Ret(s, Failure(d[1].exc.msg))
             ELSE IF d[2].kind = "raise" THEN Ret(s, Failure(d[2].exc.msg))
             ELSE Ret(s, Success(d[2].v))
    ELSE Ret(s, ActionResult(None, None))

\* The local variable result is bound by the GET and the POST branch alone;
\* reading it unbound raises UnboundLocalError, inside the try.
call_external_api(s, a, d) ==
    IF a.method = <<"GET">>
        THEN IF d[1].kind = "raise" THEN Ret(s, Failure(d[1].exc.msg))
             ELSE IF d[2].kind = "raise" THEN Ret(s, Failure(d[2].exc.msg))
             ELSE Ret(s, Success(d[2].v))
    ELSE IF a.method = <<"POST">>
        THEN IF a.data = None
                 THEN Ret(s, Failure(<<"the JSON object must be str, bytes or bytearray, not NoneType">>))
             ELSE IF ~JsonLoads(a.data.toks).ok THEN Ret(s, Failure(<<"Expecting value">>))
             ELSE IF d[1].kind = "raise" THEN Ret(s, Failure(d[1].exc.msg))
             ELSE IF d[2].kind = "raise" THEN Ret(s, Failure(d[2].exc.msg))
             ELSE Ret(s, Success(d[2].v))
    ELSE Ret(s, Failure(<<"cannot access local variable 'result' where it is not associated with a value">>))

-----------------------------------------------------------------------------
(* The registry, and the arguments and driver values the model draws from. *)

\* the names _register_custom_actions registers, retry_failed_action aside
HandlerNames ==
    {"copy_to_clipboard", "paste_from_clipboard", "take_screenshot", "extract_main_content",
     "wait_for_element", "execute_js", "scroll_to_element", "close_tab", "log_page_url",
     "open_new_tab", "click_element", "input_text", "refresh_page", "hover_over_element",
     "get_cookies", "set_cookies", "download_file", "wait_for_navigation",
     "scroll_to_bottom", "scroll_to_top", "simulate_mouse_movement", "extract_all_links",
     "extract_all_images", "extract_table_data", "fill_and_submit_form", "handle_popup",
     "switch_to_iframe", "log_console_output", "capture_network_requests",
     "clear_browser_cache", "take_full_page_screenshot", "call_external_api"}

RegisteredNames == HandlerNames \cup {"retry_failed_action"}

Handler(name, s, a, d) ==
    CASE name = "copy_to_clipboard" -> copy_to_clipboard(s, a, d)
      [] name = "paste_from_clipboard" -> paste_from_clipboard(s, a, d)
      [] name = "take_screenshot" -> take_screenshot(s, a, d)
      [] name = "extract_main_content" -> extract_main_content(s, a, d)
      [] name = "wait_for_element" -> wait_for_element(s, a, d)
      [] name = "execute_js" -> execute_js(s, a, d)
      [] name = "scroll_to_element" -> scroll_to_element(s, a, d)
      [] name = "close_tab" -> close_tab(s, a, d)
      [] name = "log_page_url" -> log_page_url(s, a, d)
      [] name = "open_new_tab" -> open_new_tab(s, a, d)
      [] name = "click_element" -> click_element(s, a, d)
      [] name = "input_text" -> input_text(s, a, d)
      [] name = "refresh_page" -> refresh_page(s, a, d)
      [] name = "hover_over_element" -> hover_over_element(s, a, d)
      [] name = "get_cookies" -> get_cookies(s, a, d)
      [] name = "set_cookies" -> set_cookies(s, a, d)
      [] name = "download_file" -> download_file(s, a, d)
      [] name = "wait_for_navigation" -> wait_for_navigation(s, a, d)
      [] name = "scroll_to_bottom" -> scroll_to_bottom(s, a, d)
      [] name = "scroll_to_top" -> scroll_to_top(s, a, d)
      [] name = "simulate_mouse_movement" -> simulate_mouse_movement(s, a, d)
      [] name = "extract_all_links" -> extract_all_links(s, a, d)
      [] name = "extract_all_images" -> extract_all_images(s, a, d)
      [] name = "extract_table_data" -> extract_table_data(s, a, d)
      [] name = "fill_and_submit_form" -> fill_and_submit_form(s, a, d)
      [] name = "handle_popup" -> handle_popup(s, a, d)
      [] name = "switch_to_iframe" -> switch_to_iframe(s, a, d)
      [] name = "log_console_output" -> log_console_output(s, a, d)
      [] name = "capture_network_requests" -> capture_network_requests(s, a, d)
      [] name = "clear_browser_cache" -> clear_browser_cache(s, a, d)
      [] name = "take_full_page_screenshot" -> take_full_page_screenshot(s, a, d)
      [] name = "call_external_api" -> call_external_api(s, a, d)

NoArgs == [none |-> None]

Texts == {<<>>, <<"hi">>}

Selectors == {<<"#a">>}

Urls == {<<"http://b/">>}

\* the sequences over S of length at most n
RECURSIVE SeqsUpTo(_, _)
SeqsUpTo(S, n) ==
    IF n = 0 THEN {<<>>}
    ELSE LET shorter == SeqsUpTo(S, n - 1) IN
         shorter \cup {Append(q, x) : q \in shorter, x \in S}

Cookie(name, value) ==
    JObj(<< <<<<"name">>, JStr(name)>>, <<<<"value">>, JStr(value)>> >>)

Cookies == {Cookie(<<"sid">>, <<"x">>), Cookie(<<"theme">>, <<"o", "'", "k">>)}

CookieLists == SeqsUpTo(Cookies, MaxCookies)

\* the cookies argument of set_cookies: JSON lists of cookies, a JSON text that
\* is no list, and a text that is no JSON
CookieTexts ==
    {JsonDumps(JArr(l)) : l \in CookieLists}
    \cup {JsonDumps(Cookie(<<"sid">>, <<"x">>)), <<"[", "{", "'", "name", "'">>}

FieldNames == {<<"f", IntStr(i)>> : i \in 1..MaxFields}

\* the data argument of fill_and_submit_form: objects of distinct fields in any
\* order, an object that repeats a key, a JSON text that is no object, no JSON
FormItems ==
    {q \in SeqsUpTo(FieldNames, MaxFields) :
        \A i, j \in 1..Len(q) : i # j => q[i] # q[j]}

FormTexts ==
    {JsonDumps(JObj([i \in 1..Len(q) |-> <<q[i], JStr(<<"v">>)>>])) : q \in FormItems}
    \cup {<<"{", "\"", "f", "1", "\"", ":", "\"", "v", "\"", ",",
            "\"", "f", "1", "\"", ":", "\"", "w", "\"", "}">>,
          <<"[", "]">>, <<"{", "f", "1">>}

ParamsOf(name) ==
    CASE name = "copy_to_clipboard" -> [text : Texts]
      [] name \in {"wait_for_element"} -> [selector : Selectors, timeout : {5000}]
      [] name \in {"scroll_to_element", "click_element", "hover_over_element",
                   "extract_table_data"} -> [selector : Selectors]
      [] name = "execute_js" -> [script : {<<"document.title">>}]
      [] name = "open_new_tab" -> [url : Urls]
      [] name = "input_text" -> [selector : Selectors, text : {<<"hi">>}]
      [] name = "set_cookies" -> [cookies : CookieTexts]
      [] name = "download_file" ->
            [url : Urls, download_path : {None, Str(<<>>), Str(<<"/tmp/f">>)}]
      [] name = "wait_for_navigation" -> [timeout : {10000}]
      [] name = "simulate_mouse_movement" -> [x : {0, 7}, y : {-1}]
      [] name = "fill_and_submit_form" -> [form_selector : {<<"#f">>}, data : FormTexts]
      [] name = "handle_popup" -> [action : {<<"accept">>, <<"dismiss">>, <<"ignore">>}]
      [] name = "switch_to_iframe" -> [iframe_selector : Selectors]
      [] name = "call_external_api" ->
            [url : Urls, method : {<<"GET">>, <<"POST">>, <<"PUT">>},
             data : {None, Str(<<"{", "}">>), Str(<<"{">>)}]
      [] OTHER -> {NoArgs}

\* get_current_page() yields the page; the model keeps its url
PageVals == {<<"http://a/">>}

NoVal == {None}

\* the number of fills and clicks fill_and_submit_form can make
FormCalls(a) ==
    LET data_dict == JsonLoads(a.data) IN
    IF data_dict.ok /\ data_dict.v.t = "dict" THEN Len(data_dict.v.v) + 1 ELSE 0

\* what each call of the handler may return, in the order of the calls
CallVals(name, s, a) ==
    CASE name = "copy_to_clipboard" -> <<NoVal>>
      [] name = "paste_from_clipboard" -> <<{s.clipboard}, PageVals, NoVal>>
      [] name \in {"take_screenshot", "take_full_page_screenshot"} ->
            <<PageVals, {<<>>, <<"PNG">>}>>
      [] name = "extract_main_content" -> <<PageVals, {<<"<html>">>}, {<<>>, <<"main">>}>>
      [] name = "execute_js" -> <<PageVals, DOMAIN EvaluateResults>>
      [] name = "log_page_url" -> <<PageVals>>
      [] name = "open_new_tab" -> <<NoVal, NoVal>>
      [] name = "get_cookies" -> <<PageVals, {JArr(s.cookies)}>>
      [] name = "set_cookies" ->
            \* json.loads raises before add_cookies is called; add_cookies
            \* raises on what is no list of cookies
            LET cookies_list == JsonLoads(a.cookies) IN
            IF ~cookies_list.ok THEN <<PageVals>>
            ELSE IF IsCookieList(cookies_list.v) THEN <<PageVals, NoVal>>
            ELSE <<PageVals, {}>>
      [] name = "download_file" ->
            IF a.download_path # None /\ a.download_path.toks # <<>>
            THEN <<PageVals, NoVal, NoVal, NoVal>>
            ELSE <<PageVals, NoVal, NoVal>>
      [] name \in {"extract_all_links", "extract_all_images"} ->
            <<PageVals, {JArr(<<>>), JArr(<<JStr(<<"http://b/">>), JStr(<<"http://c/">>)>>)}>>
      [] name = "extract_table_data" ->
            <<PageVals, {JArr(<<>>), JArr(<<JArr(<<JStr(<<"cell">>)>>)>>)}>>
      [] name = "fill_and_submit_form" -> <<PageVals>> \o [i \in 1..FormCalls(a) |-> NoVal]
      [] name = "handle_popup" ->
            IF a.action \in {<<"accept">>, <<"dismiss">>} THEN <<PageVals, NoVal>>
            ELSE <<PageVals>>
      [] name = "switch_to_iframe" -> <<PageVals, {"ElementHandle", "None"}, NoVal>>
      [] name = "call_external_api" ->
            IF \/ a.method = <<"GET">>
               \/ a.method = <<"POST">> /\ a.data # None /\ JsonLoads(a.data.toks).ok
            THEN <<NoVal, {<<>>, <<"body">>}>>
            ELSE <<>>
      [] OTHER -> <<PageVals, NoVal>>

\* the session an invocation starts from; calls collects the fills and clicks
\* the invocation sends to the page
\* The scripts of a handler's calls.  switch_to_iframe calls content_frame only
\* on an element that query_selector found.
DriverScripts(name, s, a) ==
    IF name = "switch_to_iframe"
    THEN {IF Len(d) = 3 /\ d[2].v = "None" THEN SubSeq(d, 1, 2) ELSE d :
            d \in Scripts(CallVals(name, s, a))}
    ELSE Scripts(CallVals(name, s, a))

Session == [clipboard |-> clipboard, cookies |-> cookies, fields |-> fields,
            listeners |-> listeners, calls |-> <<>>]

-----------------------------------------------------------------------------
(* The host invokes one action by name. *)

NoCall == [name |-> "none", a |-> NoArgs, d |-> <<>>, out |-> [kind |-> "none"],
           calls |-> <<>>]

Init ==
    /\ clipboard = <<>>
    /\ cookies = <<>>
    /\ fields = {}
    /\ listeners = <<>>
    /\ last = NoCall
    /\ pc = "idle"
    /\ action_name = ""
    /\ max_retries = 0
    /\ attempt = 0
    /\ trace = <<>>

execute(name) ==
    /\ name = "capture_network_requests" => Len(listeners) < MaxListeners
    /\ \E a \in ParamsOf(name) :
         \E d \in DriverScripts(name, Session, a) :
            LET r == Handler(name, Session, a, d) IN
            /\ clipboard' = r.s.clipboard
            /\ cookies' = r.s.cookies
            /\ fields' = r.s.fields
            /\ listeners' = r.s.listeners
            /\ last' = [name |-> name, a |-> a, d |-> d, out |-> r.out,
                        calls |-> r.s.calls]
    /\ UNCHANGED retry_vars

Invoke == \E name \in HandlerNames : execute(name)

\* the host invokes an action once it holds no result
HostInvoke == pc # "loop" /\ last = NoCall /\ Invoke

\* the host takes the ActionResult, or the exception, of the invocation
HostTakeResult ==
    /\ pc # "loop"
    /\ last # NoCall
    /\ last' = NoCall
    /\ UNCHANGED <<session_vars, retry_vars>>

Next == HostInvoke \/ HostTakeResult

Spec == Init /\ [][Next]_vars

-----------------------------------------------------------------------------
(* Cookies: set_cookies and get_cookies on one session, back to back. *)

SetCookies == pc # "loop" /\ execute("set_cookies")

GetCookies == pc # "loop" /\ execute("get_cookies")

NextCookies == SetCookies \/ GetCookies

SpecCookies == Init /\ [][NextCookies]_vars

-----------------------------------------------------------------------------
(* Network capture: the callbacks page.on("request", ...) registered stay   *)
(* on the page and run whenever the page makes a request.                   *)

RequestUrls == {<<"http://a/app.js">>, <<"http://a/api">>}

CaptureNetworkRequests == pc # "loop" /\ execute("capture_network_requests")

\* the page makes a request: every registered callback appends its url
RequestFires ==
    /\ listeners # <<>>
    /\ \A i \in 1..Len(listeners) : Len(listeners[i]) < MaxRequests
    /\ \E url \in RequestUrls :
         listeners' = [i \in 1..Len(listeners) |-> Append(listeners[i], url)]
    /\ UNCHANGED <<clipboard, cookies, fields, last, retry_vars>>

ExtractAllLinks == pc # "loop" /\ execute("extract_all_links")

NextCapture == CaptureNetworkRequests \/ RequestFires \/ ExtractAllLinks

SpecCapture == Init /\ [][NextCapture]_vars

-----------------------------------------------------------------------------
(* retry_failed_action, one step per iteration of its loop. *)

\* the actions that take no argument but the browser, as execute_action is
\* called with none, and a name that is not registered
RetryTargets ==
    {"take_screenshot", "close_tab", "log_page_url", "refresh_page", "get_cookies",
     "scroll_to_top", "extract_all_links", "log_console_output",
     "capture_network_requests", "clear_browser_cache", "take_full_page_screenshot",
     "no_such_action"}

\* Registry.execute_action: the named action is looked up and its handler run;
\* a name that is not registered is a fault of the registry
lookup(name) == name \in RegisteredNames

UnknownActionError(name) == Exc("UnknownActionError", <<"Action ", name, " not found">>)

execute_action(name, s, d) ==
    IF ~lookup(name) THEN Esc(s, UnknownActionError(name))
    ELSE Handler(name, s, NoArgs, d)

ExecuteScripts(name, s) ==
    IF ~lookup(name) THEN {<<>>} ELSE DriverScripts(name, s, NoArgs)

\* range(max_retries - 1): the loop gives up one attempt early
InRangeOneShort(i, n) == 0 <= i /\ i < n - 1

\* a loop that tries once whatever max_retries is
InRangeAtLeastOnce(i, n) == 0 <= i /\ (i < n \/ i = 0)

\* range(max_retries)
InRange(i, n) == 0 <= i /\ i < n

\* a wrapper that also retries on a returned result whose error is set
CaughtOrFailure(out) ==
    \/ out.kind = "raise"
    \/ out.kind = "return" /\ out.result.error # None

\* except Exception: what leaves execute_action is caught, what it returns is not
Caught(out) == out.kind = "raise"

\* the message built from the loop variable, not from max_retries
ExhaustedResultLoopVar(name, n) ==
    Failure(<<"Action '", name, "' failed after ", IntStr(n - 1), " retries">>)

ExhaustedResult(name, n) ==
    Failure(<<"Action '", name, "' failed after ", IntStr(n), " retries">>)

RetryCall ==
    /\ pc # "loop"
    /\ \E name \in RetryTargets, n \in -1..MaxRetries :
         /\ name = "capture_network_requests" => Len(listeners) < MaxListeners
         /\ action_name' = name
         /\ max_retries' = n
         /\ last' = [name |-> "retry_failed_action",
                     a |-> [action_name |-> name, max_retries |-> n],
                     d |-> <<>>, out |-> [kind |-> "running"], calls |-> <<>>]
    /\ pc' = "loop"
    /\ attempt' = 0
    /\ trace' = <<>>
    /\ UNCHANGED session_vars

\* one iteration: result = await self.registry.execute_action(action_name, browser)
RetryAttempt ==
    /\ pc = "loop"
    /\ InRange(attempt, max_retries)
    /\ \E d \in ExecuteScripts(action_name, Session) :
         LET r == execute_action(action_name, Session, d) IN
         /\ clipboard' = r.s.clipboard
         /\ cookies' = r.s.cookies
         /\ fields' = r.s.fields
         /\ listeners' = r.s.listeners
         /\ trace' = Append(trace, r.out)
         /\ IF Caught(r.out)
            THEN /\ attempt' = attempt + 1
                 /\ pc' = "loop"
                 /\ last' = last
            ELSE /\ attempt' = attempt
                 /\ pc' = "done"
                 /\ last' = [last EXCEPT !.out = Return(r.out.result)]
    /\ UNCHANGED <<action_name, max_retries>>

\* the loop is over and no attempt returned
RetryExhausted ==
    /\ pc = "loop"
    /\ ~InRange(attempt, max_retries)
    /\ pc' = "done"
    /\ last' = [last EXCEPT !.out = Return(ExhaustedResult(action_name, max_retries))]
    /\ UNCHANGED <<session_vars, action_name, max_retries, attempt, trace>>

NextRetry == RetryCall \/ RetryAttempt \/ RetryExhausted

SpecRetry == Init /\ [][NextRetry]_vars

\* Once called, the coroutine runs on: the event loop resumes it after every
\* await, so an enabled step of the loop is taken.
SpecRetryFair == SpecRetry /\ WF_vars(RetryAttempt) /\ WF_vars(RetryExhausted)

-----------------------------------------------------------------------------
(* Properties of the handlers. *)

IsFailure(r) == r.error # None /\ r.extracted_content = None

\* whether call i of the handler goes to the browser driver (the clipboard, the
\* content extractor and the HTTP client are not the driver)
BrowserCall(name, i) ==
    CASE name = "copy_to_clipboard" -> FALSE
      [] name = "paste_from_clipboard" -> i \in {2, 3}
      [] name = "extract_main_content" -> i \in {1, 2}
      [] name = "call_external_api" -> FALSE
      [] OTHER -> TRUE

DriverCallRaised(call) ==
    \E i \in 1..Len(call.d) : BrowserCall(call.name, i) /\ call.d[i].kind = "raise"

\* C4: an invocation of a handler in which a browser-driver call raised has
\* returned a Failure whose message is not empty; no exception left the handler.
C4_DriverFaultGivesFailure ==
    (last.name \in HandlerNames /\ DriverCallRaised(last))
    => /\ last.out.kind = "return"
       /\ IsFailure(last.out.result)
       /\ last.out.result.error.toks # <<>>

\* C6: every ActionResult a handler returns has exactly one of
\* extracted_content and error set.
C6_ExactlyOnePopulated ==
    (last.name \in HandlerNames /\ last.out.kind = "return")
    => (last.out.result.extracted_content = None) # (last.out.result.error = None)

\* C6 witness: call_external_api with a method that is neither GET nor POST
\* has returned.
C6_Witness ==
    /\ last.name = "call_external_api"
    /\ last.a.method = <<"PUT">>
    /\ last.out.kind = "return"
    /\ IsFailure(last.out.result)

Items(x) == {x.v[i] : i \in 1..Len(x.v)}

\* C7: get_cookies right after a successful set_cookies(C) returns a text that
\* json.loads parses, to a list set-equal to C.
C7_CookieRoundTrip ==
    [][ ( /\ last.name = "set_cookies"
          /\ last.out.kind = "return"
          /\ last.out.result.error = None
          /\ last'.name = "get_cookies"
          /\ last'.out.kind = "return"
          /\ last'.out.result.error = None )
        => LET C == JsonLoads(last.a.cookies)
               got == JsonLoads(last'.out.result.extracted_content.toks)
           IN /\ got.ok
              /\ got.v.t = "list"
              /\ Items(got.v) = Items(C.v) ]_vars

\* C8: fill_and_submit_form fills the fields in the order of the parsed data and
\* stops at the first call that raises, undoing nothing: when the fill of field
\* i raises, fields 1..i-1 hold their values, fields i.. are as they were, no
\* click is sent and the result is a Failure; when the click raises, every field
\* holds its value and the result is a Failure; a click is sent only after
\* every fill has gone through.
C8_Step ==
    ( /\ last'.name = "fill_and_submit_form"
      /\ last'.out.kind = "return"
      /\ JsonLoads(last'.a.data).ok
      /\ JsonLoads(last'.a.data).v.t = "dict" )
    => LET a == last'.a
           d == last'.d
           items == JsonLoads(a.data).v.v
           n == Len(items)
           sel(j) == FieldSelector(a.form_selector, items[j][1])
           holds(j) == <<sel(j), items[j][2].v>> \in fields'
           untouched(j) == {f \in fields' : f[1] = sel(j)} = {f \in fields : f[1] = sel(j)}
           fill(j) == <<"fill", sel(j)>>
           click == <<"click", SubmitSelector(a.form_selector)>>
           log == last'.calls
       IN /\ \A i \in 1..n :
                (Len(d) = i + 1 /\ d[i + 1].kind = "raise")
                => /\ \A j \in 1..(i - 1) : holds(j)
                   /\ \A j \in i..n : untouched(j)
                   /\ log = [j \in 1..i |-> fill(j)]
                   /\ IsFailure(last'.out.result)
          /\ (Len(d) = n + 2 /\ d[n + 2].kind = "raise")
                => /\ \A j \in 1..n : holds(j)
                   /\ log = [j \in 1..n |-> fill(j)] \o <<click>>
                   /\ IsFailure(last'.out.result)
          /\ (\E j \in 1..Len(log) : log[j] = click)
                => /\ log = [j \in 1..n |-> fill(j)] \o <<click>>
                   /\ \A j \in 1..n : d[j + 1].kind = "ok"

C8_NoRollbackStopsAtFirstFailure == [][C8_Step]_vars

\* C8 witness: of two fields the second fill raised; the first field holds its
\* value and no click was sent.
C8_Witness ==
    /\ last.name = "fill_and_submit_form"
    /\ last.out.kind = "return"
    /\ IsFailure(last.out.result)
    /\ Len(last.d) = 3
    /\ last.d[3].kind = "raise"
    /\ Len(last.calls) = 2
    /\ \E f \in fields : f[1] = last.calls[1][2]
    /\ ~\E f \in fields : f[1] = last.calls[2][2]

\* C9 as stated: whatever ActionResult capture_network_requests returns, its
\* extracted_content is "[]".
C9_AlwaysEmptyList ==
    (last.name = "capture_network_requests" /\ last.out.kind = "return")
    => last.out.result.extracted_content = Str(<<"[", "]">>)

\* C9, amended: the content capture_network_requests returns is "[]" in every
\* execution in which page.on registers the callback; a request that fires
\* later changes no result; each invocation adds one callback with a list of
\* its own; and no result of any invocation holds a url a callback appended.
C9_Step ==
    /\ ( /\ last'.name = "capture_network_requests"
         /\ Len(listeners') > Len(listeners) )
       => listeners' = Append(listeners, <<>>)
    /\ (Len(listeners') = Len(listeners) /\ listeners' # listeners) => last' = last

C9_State ==
    /\ ( /\ last.name = "capture_network_requests"
         /\ last.out.kind = "return"
         /\ last.out.result.error = None )
       => last.out.result.extracted_content = Str(<<"[", "]">>)
    /\ (last.out.kind = "return" /\ last.out.result.extracted_content # None)
       => \A url \in RequestUrls :
             ~Contains(last.out.result.extracted_content.toks, url[1])

C9_CaptureReturnsEmptyList == []C9_State /\ [][C9_Step]_vars

\* C9 witness: a second capture has returned after the callback of the first
\* one has appended a url.
C9_Witness ==
    /\ last.name = "capture_network_requests"
    /\ last.out.kind = "return"
    /\ last.out.result.extracted_content = Str(<<"[", "]">>)
    /\ Len(listeners) = 2
    /\ listeners[1] # <<>>
    /\ listeners[2] = <<>>

-----------------------------------------------------------------------------
(* Properties of retry_failed_action. *)

Max(x, y) == IF x >= y THEN x ELSE y

AllRaised(tr) == \A i \in 1..Len(tr) : tr[i].kind = "raise"

\* C1: if the named action raises on its first k invocations, k < max_retries,
\* and returns R on invocation k + 1, the wrapper has returned exactly R and has
\* made exactly k + 1 invocations; and the wrapper never gives up while fewer
\* than max_retries invocations have been made.
C1_ReturnsFirstNormalResult ==
    lookup(action_name) =>
        /\ \A k \in 0..MaxRetries :
             ( /\ k < max_retries
               /\ Len(trace) > k
               /\ AllRaised(SubSeq(trace, 1, k))
               /\ trace[k + 1].kind = "return" )
             => /\ pc = "done"
                /\ Len(trace) = k + 1
                /\ last.out = Return(trace[k + 1].result)
        /\ (pc = "done" /\ AllRaised(trace)) => Len(trace) >= max_retries

\* C1 witness: two raises, then Success on the third invocation of max_retries = 3.
C1_Witness ==
    /\ pc = "done"
    /\ lookup(action_name)
    /\ max_retries = 3
    /\ Len(trace) = 3
    /\ trace[1].kind = "raise"
    /\ trace[2].kind = "raise"
    /\ trace[3].kind = "return"
    /\ trace[3].result.error = None
    /\ last.out = Return(trace[3].result)

\* C2: if every invocation of the named action raised and max_retries = n >= 1,
\* the wrapper made exactly n invocations and returned a Failure whose message
\* holds the action name and n.
C2_AllRaiseGivesFailure ==
    ( /\ pc = "done"
      /\ lookup(action_name)
      /\ max_retries >= 1
      /\ AllRaised(trace) )
    => /\ Len(trace) = max_retries
       /\ last.out.kind = "return"
       /\ IsFailure(last.out.result)
       /\ Contains(last.out.result.error.toks, action_name)
       /\ Contains(last.out.result.error.toks, IntStr(max_retries))

\* C2 witness: three raises of a registered action under max_retries = 3.
C2_Witness ==
    /\ pc = "done"
    /\ action_name = "take_screenshot"
    /\ max_retries = 3
    /\ Len(trace) = 3
    /\ AllRaised(trace)
    /\ last.out.kind = "return"

\* C3: if the first invocation returns an ActionResult whose error is set, the
\* wrapper has made that one invocation only and has returned that result.
C3_NoRetryOnReturnedFailure ==
    ( /\ lookup(action_name)
      /\ Len(trace) >= 1
      /\ trace[1].kind = "return"
      /\ trace[1].result.error # None )
    => /\ pc = "done"
       /\ Len(trace) = 1
       /\ last.out = Return(trace[1].result)

\* C3 witness: refresh_page returned a Failure at once, two attempts were left.
C3_Witness ==
    /\ pc = "done"
    /\ action_name = "refresh_page"
    /\ max_retries = 3
    /\ Len(trace) = 1
    /\ trace[1].kind = "return"
    /\ IsFailure(trace[1].result)
    /\ last.out = Return(trace[1].result)

\* C5: when the wrapper has dispatched a name that is not registered, the
\* registry's fault has left the wrapper; no ActionResult stands in for it.
C5_UnknownActionPropagates ==
    (pc = "done" /\ ~lookup(action_name) /\ trace # <<>>)
    => last.out = Raise(UnknownActionError(action_name))

\* C10: the wrapper makes at most max(max_retries, 0) invocations, has returned
\* one ActionResult when it is done, makes no invocation at all and returns the
\* "failed after <max_retries> retries" Failure when max_retries <= 0, and every
\* call of it comes to its return.
C10_Safety ==
    lookup(action_name) =>
        /\ Len(trace) <= Max(max_retries, 0)
        /\ pc = "done" =>
             /\ last.out.kind = "return"
             /\ (last.out.result.error = None) # (last.out.result.extracted_content = None)
        /\ (pc = "done" /\ max_retries <= 0) =>
             /\ trace = <<>>
             /\ last.out = Return(Failure(<<"Action '", action_name, "' failed after ",
                                            IntStr(max_retries), " retries">>))

C10_BoundedAndTotal == []C10_Safety /\ ((pc = "loop") ~> (pc = "done"))

\* C10 witness: max_retries = -1, no invocation, the Failure returned.
C10_Witness ==
    /\ pc = "done"
    /\ lookup(action_name)
    /\ max_retries = -1
    /\ trace = <<>>
    /\ IsFailure(last.out.result)
====
